---- MODULE Spec2Model ----
(***************************************************************************)
(* Model of the streamer-chess backend:                                    *)
(*   - the RTSP viewer session, main() of backend/opencv_rtsp_client.py    *)
(*     (connect, flush-read loop, failure counter, reconnect, display,     *)
(*     key commands, cleanup);                                             *)
(*   - the status probe check_rtsp_stream_access() and the /events         *)
(*     generator that drives it, backend/main.py.                          *)
(*   - the annotation step detect_chess_pieces() of                        *)
(*     backend/opencv_rtsp_client.py.                                      *)
(* The viewer is checked under Spec, the probe/server under SpecProbe,     *)
(* the annotation step under SpecDetect.                                   *)
(***************************************************************************)
EXTENDS Integers, Sequences, FiniteSets, TLC

\* ---------------------------------------------------------------- constants
\* `if no_frame_count > 30` (opencv_rtsp_client.py:180)
Threshold == 30
\* `for _ in range(3)` (opencv_rtsp_client.py:173)
FlushK == 3
\* `if confidence > 0.3` (opencv_rtsp_client.py:60), in tenths
ConfThreshold == 3

\* ------------------------------------------------------------------- bounds
\* frames displayed in one session
MaxFrames == 2
\* snapshots saved in one session
MaxShots == 2
\* longest run of consecutive failed reads the source produces
MaxFailRun == 32
\* cycles of the /events generator
MaxCycles == 4
\* detections the model returns for one frame
MaxDet == 2

\* ------------------------------------------------------------------- state
VARIABLES
    pc,                 \* position of main() in opencv_rtsp_client.py
    live,               \* number of open transport handles of the viewer
    capOpened,          \* cap.isOpened() of the object bound to `cap`
    i,                  \* reads already done by the flush loop
    ret,                \* `ret` of the last cap.read()
    frame,              \* `frame`: 0 is None, k is the frame of read k of the cycle
    no_frame_count,
    frame_count,
    screenshot_count,
    fullscreen,
    displayed,          \* frame shown by cv2.imshow in this iteration, 0 if none
    endReason,          \* why the session left the loop
    \* history of the run, observed and never read by the program
    reads,              \* cap.read() calls of this iteration
    lastGood,           \* frame of the last successful read of this iteration
    runFails,           \* consecutive failed reads since the last successful read
    runReconnects,      \* successful release-and-reopen cycles in that run
    endedRun,           \* length of the failure run ended by a read of this iteration
    endedRunReconnects, \* reconnect cycles in that ended run
    justReopened,       \* a reopen succeeded and no read followed yet
    reopenFailures,     \* failed reopen attempts
    saved,              \* numbers of the snapshot files written, in order
    \* backend/main.py
    spc,                \* position of event_generator / validate / probe
    cycle,              \* completed generator cycles
    emitted,            \* events yielded
    emittedThisCycle,   \* events yielded in the current cycle
    probeLive,          \* open handles created by the probe
    probeRet,           \* `ret` of the probe's single read
    probeFrame,         \* "frame" or "None"
    probeResult,        \* return value of check_rtsp_stream_access, <<>> before
    should_send,        \* <<should_send, reason>> of validate_message_requirements
    openOutcome,        \* what the probe's open did in this cycle
    readOutcome,        \* what the probe's read did in this cycle
    \* detect_chess_pieces(model, frame)
    dpc,                \* position inside detect_chess_pieces
    dModel,             \* "None" or "loaded"
    dInput,             \* pixels of the frame passed in
    dFrame,             \* the frame object: its pixels and the overlays drawn on it
    dDets,              \* what model(frame) yields: boxes with confidence in tenths
    dInferRaises,       \* model(frame) raises
    dk,                 \* box being processed
    dResult,            \* the returned frame, <<>> before the return
    dErrored            \* the except branch ran

viewerVars == <<pc, live, capOpened, i, ret, frame, no_frame_count, frame_count,
                screenshot_count, fullscreen, displayed, endReason, reads,
                lastGood, runFails, runReconnects, endedRun, endedRunReconnects,
                justReopened, reopenFailures, saved>>

serverVars == <<spc, cycle, emitted, emittedThisCycle, probeLive, probeRet,
                probeFrame, probeResult, should_send, openOutcome, readOutcome>>

detectVars == <<dpc, dModel, dInput, dFrame, dDets, dInferRaises, dk, dResult,
                dErrored>>

vars == <<viewerVars, serverVars, detectVars>>

LoopPcs == {"flush", "check", "release", "backoff", "reopen", "delay", "keys"}
TermPcs == {"finally", "done"}
Keys == {"q", "f", "r", "s", "none"}

Init ==
    /\ pc = "connect"
    /\ live = 0
    /\ capOpened = FALSE
    /\ i = 0
    /\ ret = FALSE
    /\ frame = 0
    /\ no_frame_count = 0
    /\ frame_count = 0
    /\ screenshot_count = 0
    /\ fullscreen = FALSE
    /\ displayed = 0
    /\ endReason = "none"
    /\ reads = 0
    /\ lastGood = 0
    /\ runFails = 0
    /\ runReconnects = 0
    /\ endedRun = 0
    /\ endedRunReconnects = 0
    /\ justReopened = FALSE
    /\ reopenFailures = 0
    /\ saved = <<>>
    /\ spc = "cycle_start"
    /\ cycle = 0
    /\ emitted = 0
    /\ emittedThisCycle = 0
    /\ probeLive = 0
    /\ probeRet = FALSE
    /\ probeFrame = "None"
    /\ probeResult = <<>>
    /\ should_send = <<>>
    /\ openOutcome = "none"
    /\ readOutcome = "none"
    /\ dpc = "idle"
    /\ dModel = "None"
    /\ dInput = 0
    /\ dFrame = [pixels |-> 0, overlays |-> <<>>]
    /\ dDets = <<>>
    /\ dInferRaises = FALSE
    /\ dk = 0
    /\ dResult = <<>>
    /\ dErrored = FALSE

\* ------------------------------------------------------------ viewer: main()

\* -------------------------------------------- decisions of main(), one each

OpenFailPc_Continue == "flush"
\* `if not cap.isOpened(): ... sys.exit(1)`: where a failed initial open goes
OpenFailPc == "done"

FlushNextPc_NoBreak(ok, n) == IF n = FlushK THEN "check" ELSE "flush"
\* `for _ in range(3)` with `if not ret: break`: position after the n-th read
FlushNextPc(ok, n) == IF ~ok \/ n = FlushK THEN "check" ELSE "flush"

AfterFailPc_GiveUp(n) == IF n > Threshold THEN "finally" ELSE "delay"
AfterFailPc_FallThrough(n) == IF n > Threshold THEN "release" ELSE "keys"
AfterFailPc_LateReconnect(n) == IF n > Threshold + 1 THEN "release" ELSE "delay"
\* `if no_frame_count > 30:` reconnect, else fall to the sleep and `continue`
AfterFailPc(n) == IF n > Threshold THEN "release" ELSE "delay"

ReleaseHandle_Forgotten(n, opened) == n
\* cap.release(): handles left open, of n, when the object is opened or not
ReleaseHandle(n, opened) == IF opened THEN n - 1 ELSE n

ReopenFailPc_Retry == "backoff"
\* `if not cap.isOpened(): print(...); break`: where a failed reopen goes
ReopenFailPc == "finally"

FinalRelease_Missing(n, opened) == n
\* `finally: cap.release()`: handles left open when the session ends
FinalRelease(n, opened) == ReleaseHandle(n, opened)

NextShot_Skips(n) == n + 2
\* `screenshot_count += 1`
NextShot(n) == n + 1

CountAfterReopen_Kept(n) == n
\* `no_frame_count = 0` after a successful reopen
CountAfterReopen(n) == 0

\* the per-iteration observations start afresh with each `while True` pass
NewIteration ==
    /\ i' = 0
    /\ reads' = 0
    /\ lastGood' = 0
    /\ displayed' = 0
    /\ endedRun' = 0
    /\ endedRunReconnects' = 0

\* cap = cv2.VideoCapture(url); if not cap.isOpened(): ... sys.exit(1)
Connect(ok) ==
    /\ pc = "connect"
    /\ IF ok
       THEN /\ live' = live + 1
            /\ capOpened' = TRUE
            /\ pc' = "flush"
            /\ endReason' = endReason
       ELSE /\ live' = live
            /\ capOpened' = FALSE
            /\ pc' = OpenFailPc
            /\ endReason' = "open_failed"
    /\ UNCHANGED <<i, ret, frame, no_frame_count, frame_count, screenshot_count, saved,
                   fullscreen, displayed, reads, lastGood, runFails,
                   runReconnects, endedRun, endedRunReconnects, justReopened,
                   reopenFailures>>

\* one pass of `for _ in range(3): ret, frame = cap.read(); if not ret: break`
Read(ok) ==
    /\ pc = "flush"
    /\ i < FlushK
    /\ ok => frame_count < MaxFrames
    /\ ~ok => runFails < MaxFailRun
    /\ ret' = ok
    /\ frame' = IF ok THEN i + 1 ELSE 0
    /\ reads' = reads + 1
    /\ i' = i + 1
    /\ pc' = FlushNextPc(ok, i + 1)
    /\ justReopened' = FALSE
    /\ IF ok
       THEN /\ lastGood' = i + 1
            /\ endedRun' = IF runFails > 0 THEN runFails ELSE endedRun
            /\ endedRunReconnects' = IF runFails > 0 THEN runReconnects
                                     ELSE endedRunReconnects
            /\ runFails' = 0
            /\ runReconnects' = 0
       ELSE /\ runFails' = runFails + 1
            /\ UNCHANGED <<lastGood, endedRun, endedRunReconnects, runReconnects>>
    /\ UNCHANGED <<live, capOpened, no_frame_count, frame_count,
                   screenshot_count, saved, fullscreen, displayed, endReason,
                   reopenFailures>>

\* `if not ret: no_frame_count += 1; if no_frame_count > 30: ...`
CheckFail ==
    /\ pc = "check"
    /\ ~ret
    /\ no_frame_count' = no_frame_count + 1
    /\ pc' = AfterFailPc(no_frame_count + 1)
    /\ UNCHANGED <<live, capOpened, i, ret, frame, frame_count, screenshot_count, saved,
                   fullscreen, displayed, endReason, reads, lastGood, runFails,
                   runReconnects, endedRun, endedRunReconnects, justReopened,
                   reopenFailures>>

\* cap.release()
Release ==
    /\ pc = "release"
    /\ live' = ReleaseHandle(live, capOpened)
    /\ capOpened' = FALSE
    /\ pc' = "backoff"
    /\ UNCHANGED <<i, ret, frame, no_frame_count, frame_count, screenshot_count, saved,
                   fullscreen, displayed, endReason, reads, lastGood, runFails,
                   runReconnects, endedRun, endedRunReconnects, justReopened,
                   reopenFailures>>

\* time.sleep(2)
Backoff ==
    /\ pc = "backoff"
    /\ pc' = "reopen"
    /\ UNCHANGED <<live, capOpened, i, ret, frame, no_frame_count, frame_count,
                   screenshot_count, saved, fullscreen, displayed, endReason, reads,
                   lastGood, runFails, runReconnects, endedRun,
                   endedRunReconnects, justReopened, reopenFailures>>

\* cap = cv2.VideoCapture(url); if not cap.isOpened(): break;
\* cap.set(...); no_frame_count = 0
Reopen(ok) ==
    /\ pc = "reopen"
    /\ IF ok
       THEN /\ live' = live + 1
            /\ capOpened' = TRUE
            /\ no_frame_count' = CountAfterReopen(no_frame_count)
            /\ runReconnects' = runReconnects + 1
            /\ justReopened' = TRUE
            /\ pc' = "delay"
            /\ UNCHANGED <<endReason, reopenFailures>>
       ELSE /\ capOpened' = FALSE
            /\ reopenFailures' = reopenFailures + 1
            /\ endReason' = "reopen_failed"
            /\ pc' = ReopenFailPc
            /\ UNCHANGED <<live, no_frame_count, runReconnects, justReopened>>
    /\ UNCHANGED <<i, ret, frame, frame_count, screenshot_count, saved, fullscreen,
                   displayed, reads, lastGood, runFails, endedRun,
                   endedRunReconnects>>

\* time.sleep(0.033); continue
Delay ==
    /\ pc = "delay"
    /\ pc' = "flush"
    /\ NewIteration
    /\ UNCHANGED <<live, capOpened, ret, frame, no_frame_count, frame_count,
                   screenshot_count, saved, fullscreen, endReason, runFails,
                   runReconnects, justReopened, reopenFailures>>

\* no_frame_count = 0; frame_count += 1; overlays; cv2.imshow(window, frame)
Display ==
    /\ pc = "check"
    /\ ret
    /\ no_frame_count' = 0
    /\ frame_count' = frame_count + 1
    /\ displayed' = frame
    /\ pc' = "keys"
    /\ UNCHANGED <<live, capOpened, i, ret, frame, screenshot_count, saved, fullscreen,
                   endReason, reads, lastGood, runFails, runReconnects, endedRun,
                   endedRunReconnects, justReopened, reopenFailures>>

\* key = cv2.waitKey(1) & 0xFF and the if/elif chain on it; the 's' branch
\* names the file stream_screenshot_{screenshot_count:03d}.jpg after the increment
Key(k) ==
    /\ pc = "keys"
    /\ k = "s" => screenshot_count < MaxShots
    /\ IF k = "q"
       THEN /\ pc' = "finally"
            /\ endReason' = "quit"
            /\ UNCHANGED <<i, reads, lastGood, displayed, endedRun,
                           endedRunReconnects>>
       ELSE /\ pc' = "flush"
            /\ endReason' = endReason
            /\ NewIteration
    /\ fullscreen' = CASE k = "f" -> ~fullscreen
                       [] k = "r" -> FALSE
                       [] OTHER -> fullscreen
    /\ screenshot_count' = IF k = "s" THEN NextShot(screenshot_count)
                           ELSE screenshot_count
    /\ saved' = IF k = "s" THEN Append(saved, screenshot_count') ELSE saved
    /\ UNCHANGED <<live, capOpened, ret, frame, no_frame_count, frame_count,
                   runFails, runReconnects, justReopened, reopenFailures>>

\* except KeyboardInterrupt: Ctrl+C while the loop runs
Interrupt ==
    /\ pc \in LoopPcs
    /\ pc' = "finally"
    /\ endReason' = "interrupt"
    /\ UNCHANGED <<live, capOpened, i, ret, frame, no_frame_count, frame_count,
                   screenshot_count, saved, fullscreen, displayed, reads, lastGood,
                   runFails, runReconnects, endedRun, endedRunReconnects,
                   justReopened, reopenFailures>>

\* except Exception: a cv2 call of the loop raises
UnexpectedError ==
    /\ pc \in {"flush", "check", "reopen", "keys"}
    /\ pc' = "finally"
    /\ endReason' = "exception"
    /\ UNCHANGED <<live, capOpened, i, ret, frame, no_frame_count, frame_count,
                   screenshot_count, saved, fullscreen, displayed, reads, lastGood,
                   runFails, runReconnects, endedRun, endedRunReconnects,
                   justReopened, reopenFailures>>

\* finally: cap.release(); cv2.destroyAllWindows()
Finally ==
    /\ pc = "finally"
    /\ live' = FinalRelease(live, capOpened)
    /\ capOpened' = FALSE
    /\ pc' = "done"
    /\ UNCHANGED <<i, ret, frame, no_frame_count, frame_count, screenshot_count, saved,
                   fullscreen, displayed, endReason, reads, lastGood, runFails,
                   runReconnects, endedRun, endedRunReconnects, justReopened,
                   reopenFailures>>

Next ==
    \/ \E ok \in BOOLEAN : Connect(ok) /\ UNCHANGED <<serverVars, detectVars>>
    \/ \E ok \in BOOLEAN : Read(ok) /\ UNCHANGED <<serverVars, detectVars>>
    \/ CheckFail /\ UNCHANGED <<serverVars, detectVars>>
    \/ Release /\ UNCHANGED <<serverVars, detectVars>>
    \/ Backoff /\ UNCHANGED <<serverVars, detectVars>>
    \/ \E ok \in BOOLEAN : Reopen(ok) /\ UNCHANGED <<serverVars, detectVars>>
    \/ Delay /\ UNCHANGED <<serverVars, detectVars>>
    \/ Display /\ UNCHANGED <<serverVars, detectVars>>
    \/ \E k \in Keys : Key(k) /\ UNCHANGED <<serverVars, detectVars>>
    \/ Interrupt /\ UNCHANGED <<serverVars, detectVars>>
    \/ UnexpectedError /\ UNCHANGED <<serverVars, detectVars>>
    \/ Finally /\ UNCHANGED <<serverVars, detectVars>>

Spec == Init /\ [][Next]_vars

\* ------------------------------------------------- server: backend/main.py
OpenOutcomes == {"ok", "fail", "raise"}
\* (True, frame), (True, None), (False, None), or cap.read() raising
ReadOutcomes == {"frame", "ret_no_frame", "no_frame", "raise"}

\* event_generator: should_send, reason = validate_message_requirements();
\* validate: rtsp_url = os.getenv(..., default); if not rtsp_url: return False, ...
Validate(urlEmpty) ==
    /\ spc = "cycle_start"
    /\ cycle < MaxCycles
    /\ emittedThisCycle' = 0
    /\ probeResult' = <<>>
    /\ openOutcome' = "none"
    /\ readOutcome' = "none"
    /\ IF urlEmpty
       THEN /\ should_send' = <<FALSE, "no_url">>
            /\ spc' = "decide"
       ELSE /\ should_send' = <<>>
            /\ spc' = "probe_open"
    /\ UNCHANGED <<cycle, emitted, probeLive, probeRet, probeFrame>>

OnProbeException_Escapes == [next |-> "probe_raised", result |-> <<>>]
\* `except Exception as e: ... return False, error_msg`
OnProbeException == [next |-> "probe_done", result |-> <<FALSE, "error">>]

ProbeVerdict_RetOnly(r, f) ==
    IF r THEN <<TRUE, "accessible">> ELSE <<FALSE, "no_frames">>
\* `if ret and frame is not None` -> (True, ...) else (False, "... no frames")
ProbeVerdict(r, f) ==
    IF r /\ f # "None" THEN <<TRUE, "accessible">> ELSE <<FALSE, "no_frames">>

\* check_rtsp_stream_access: cap = cv2.VideoCapture(...); if cap.isOpened(): ...
\* else: return False, "Could not open ..."; except Exception: return False, ...
ProbeOpen(o) ==
    /\ spc = "probe_open"
    /\ openOutcome' = o
    /\ CASE o = "ok" ->
              /\ probeLive' = probeLive + 1
              /\ spc' = "probe_read"
              /\ probeResult' = probeResult
         [] o = "fail" ->
              /\ probeLive' = probeLive
              /\ spc' = "probe_done"
              /\ probeResult' = <<FALSE, "cannot_open">>
         [] o = "raise" ->
              /\ probeLive' = probeLive
              /\ spc' = OnProbeException.next
              /\ probeResult' = OnProbeException.result
    /\ UNCHANGED <<cycle, emitted, emittedThisCycle, probeRet, probeFrame,
                   should_send, readOutcome>>

\* ret, frame = cap.read(), or the except branch when it raises.  The except
\* branch returns without cap.release(): the handle is closed only if the
\* interpreter finalises the local `cap` at the return, which the code does
\* not control, so both outcomes are possible.
ProbeRead(o) ==
    /\ spc = "probe_read"
    /\ readOutcome' = o
    /\ IF o = "raise"
       THEN /\ probeResult' = OnProbeException.result
            /\ spc' = OnProbeException.next
            /\ \E finalised \in BOOLEAN :
                  probeLive' = IF finalised THEN probeLive - 1 ELSE probeLive
            /\ UNCHANGED <<probeRet, probeFrame>>
       ELSE /\ probeRet' = (o \in {"frame", "ret_no_frame"})
            /\ probeFrame' = IF o = "frame" THEN "frame" ELSE "None"
            /\ spc' = "probe_release"
            /\ probeResult' = probeResult
            /\ probeLive' = probeLive
    /\ UNCHANGED <<cycle, emitted, emittedThisCycle, should_send, openOutcome>>

\* cap.release(); return the verdict on (ret, frame)
ProbeRelease ==
    /\ spc = "probe_release"
    /\ probeLive' = probeLive - 1
    /\ probeResult' = ProbeVerdict(probeRet, probeFrame)
    /\ spc' = "probe_done"
    /\ UNCHANGED <<cycle, emitted, emittedThisCycle, probeRet, probeFrame,
                   should_send, openOutcome, readOutcome>>

\* validate: is_accessible, error_msg = check(...); if not is_accessible:
\* return False, error_msg; return True, "All requirements met"
ValidateReturn ==
    /\ spc = "probe_done"
    /\ should_send' = IF probeResult[1] THEN <<TRUE, "all_met">>
                      ELSE <<FALSE, probeResult[2]>>
    /\ spc' = "decide"
    /\ UNCHANGED <<cycle, emitted, emittedThisCycle, probeLive, probeRet,
                   probeFrame, probeResult, openOutcome, readOutcome>>

EmitCount_Always(send) == 1
\* `if should_send: yield ...` else only a print: events yielded in the cycle
EmitCount(send) == IF send THEN 1 ELSE 0

\* if should_send: yield f"data: ..." else: print(... "Looks the same")
Emit ==
    /\ spc = "decide"
    /\ emitted' = emitted + EmitCount(should_send[1])
    /\ emittedThisCycle' = emittedThisCycle + EmitCount(should_send[1])
    /\ spc' = "sleep"
    /\ UNCHANGED <<cycle, probeLive, probeRet, probeFrame, probeResult,
                   should_send, openOutcome, readOutcome>>

\* await asyncio.sleep(5)
Sleep ==
    /\ spc = "sleep"
    /\ cycle' = cycle + 1
    /\ spc' = "cycle_start"
    /\ UNCHANGED <<emitted, emittedThisCycle, probeLive, probeRet, probeFrame,
                   probeResult, should_send, openOutcome, readOutcome>>

NextProbe ==
    \/ \E e \in BOOLEAN : Validate(e) /\ UNCHANGED <<viewerVars, detectVars>>
    \/ \E o \in OpenOutcomes : ProbeOpen(o) /\ UNCHANGED <<viewerVars, detectVars>>
    \/ \E o \in ReadOutcomes : ProbeRead(o) /\ UNCHANGED <<viewerVars, detectVars>>
    \/ ProbeRelease /\ UNCHANGED <<viewerVars, detectVars>>
    \/ ValidateReturn /\ UNCHANGED <<viewerVars, detectVars>>
    \/ Emit /\ UNCHANGED <<viewerVars, detectVars>>
    \/ Sleep /\ UNCHANGED <<viewerVars, detectVars>>

SpecProbe == Init /\ [][NextProbe]_vars

\* ------------------------------- annotation: detect_chess_pieces(model, frame)
ConfScale == 0..10
FramePixels == {1, 2}
\* a box of the result: its confidence and whether handling it raises
Detections == [conf : ConfScale, faulty : BOOLEAN]
DetectionLists == UNION {[1..n -> Detections] : n \in 0..MaxDet}

ModelAbsent_Ignored(m) == FALSE
\* `if model is None: return frame`
ModelAbsent(m) == m = "None"

Draws_AtThreshold(c) == c >= ConfThreshold
\* `if confidence > 0.3:` draw the box and its label
Draws(c) == c > ConfThreshold

OnDetectException_Escapes == "raised"
\* `except Exception as e: print(...); return frame`
OnDetectException == "returned"

\* main(): `frame = detect_chess_pieces(chess_model, frame)` on a fresh frame;
\* calls do not share state, so one call per behaviour covers them all
DetectCall(m, p, ds, ir) ==
    /\ dpc = "idle"
    /\ dpc' = "entry"
    /\ dModel' = m
    /\ dInput' = p
    /\ dFrame' = [pixels |-> p, overlays |-> <<>>]
    /\ dDets' = ds
    /\ dInferRaises' = ir
    /\ dk' = 0
    /\ dResult' = <<>>
    /\ dErrored' = FALSE

\* `if model is None: return frame`
DetectEntry ==
    /\ dpc = "entry"
    /\ IF ModelAbsent(dModel)
       THEN /\ dResult' = dFrame
            /\ dpc' = "returned"
       ELSE /\ dResult' = dResult
            /\ dpc' = "infer"
    /\ UNCHANGED <<dModel, dInput, dFrame, dDets, dInferRaises, dk, dErrored>>

\* `results = model(frame, verbose=False)` inside the try
DetectInfer ==
    /\ dpc = "infer"
    /\ IF dInferRaises
       THEN /\ dErrored' = TRUE
            /\ dResult' = IF OnDetectException = "returned" THEN dFrame ELSE <<>>
            /\ dpc' = OnDetectException
            /\ dk' = dk
       ELSE /\ dk' = 1
            /\ dpc' = "boxes"
            /\ UNCHANGED <<dErrored, dResult>>
    /\ UNCHANGED <<dModel, dInput, dFrame, dDets, dInferRaises>>

\* one pass of `for box in boxes:`: read the box, and above the threshold
\* draw rectangle and label onto `frame` itself
DetectBox ==
    /\ dpc = "boxes"
    /\ dk <= Len(dDets)
    /\ IF dDets[dk].faulty
       THEN /\ dErrored' = TRUE
            /\ dResult' = IF OnDetectException = "returned" THEN dFrame ELSE <<>>
            /\ dpc' = OnDetectException
            /\ UNCHANGED <<dFrame, dk>>
       ELSE /\ dFrame' = IF Draws(dDets[dk].conf)
                         THEN [dFrame EXCEPT !.overlays = Append(@, dk)]
                         ELSE dFrame
            /\ dk' = dk + 1
            /\ UNCHANGED <<dErrored, dResult, dpc>>
    /\ UNCHANGED <<dModel, dInput, dDets, dInferRaises>>

\* `return frame` after the loops
DetectReturn ==
    /\ dpc = "boxes"
    /\ dk > Len(dDets)
    /\ dResult' = dFrame
    /\ dpc' = "returned"
    /\ UNCHANGED <<dModel, dInput, dFrame, dDets, dInferRaises, dk, dErrored>>

NextDetect ==
    \/ /\ dpc = "idle"
       /\ \E m \in {"None", "loaded"}, p \in FramePixels,
             ds \in DetectionLists, ir \in BOOLEAN :
             DetectCall(m, p, ds, ir) /\ UNCHANGED <<viewerVars, serverVars>>
    \/ DetectEntry /\ UNCHANGED <<viewerVars, serverVars>>
    \/ DetectInfer /\ UNCHANGED <<viewerVars, serverVars>>
    \/ DetectBox /\ UNCHANGED <<viewerVars, serverVars>>
    \/ DetectReturn /\ UNCHANGED <<viewerVars, serverVars>>

SpecDetect == Init /\ [][NextDetect]_vars

\* ================================================================== claims

Reconnecting == {"release", "backoff", "reopen"}
Reasons == {"accessible", "no_frames", "cannot_open", "error"}

\* C1 (as stated): a run of N < 30 consecutive failed reads since the last
\* success leaves the session streaming, and the session enters Reconnecting
\* exactly when the run reaches N = 30: after a failed read is handled the
\* session is at the release step if and only if the run is 30 long.
C1_ReconnectAtThreshold ==
    (pc \in {"release", "delay"} /\ runReconnects = 0)
        => ((pc = "release") <=> (runFails = Threshold))

C4_SurfacesLastGoodFrame ==
    (pc \in {"delay", "keys"} /\ lastGood > 0) => displayed = lastGood

\* C5: an iteration performs between 1 and K = 3 reads, and performs no read
\* after a read of the same iteration has failed.
C5_ReadsPerIteration ==
    /\ [](reads <= FlushK)
    /\ [](pc \in {"check", "release", "backoff", "reopen", "delay", "keys"}
            => reads >= 1)
    /\ [][reads' > reads => (reads = 0 \/ ret)]_vars

C5_Witness == pc = "check" /\ reads = 2 /\ ~ret

\* C6: after a successful reopen the failure counter is 0 when the next
\* iteration starts, and a reconnect is started only with the counter at or
\* above the threshold again.
C6_CounterResetOnReopen ==
    /\ (justReopened /\ pc \in {"delay", "flush"}) => no_frame_count = 0
    /\ pc = "release" => no_frame_count >= Threshold

C6_Witness == justReopened /\ pc = "flush" /\ reads = 0

\* C7 (as stated): frames stream, then exactly 30 consecutive reads fail,
\* then a read yields a frame again: that failure run contains exactly one
\* release-and-reopen of the connection.  (frame_count >= 1 with nothing
\* displayed yet in this iteration: frames were shown before the run.)
C7_OneCycleAtThreshold ==
    (endedRun = Threshold /\ frame_count >= 1 /\ displayed = 0)
        => endedRunReconnects = 1

\* C8: at most one connection handle of the session is live, and none is
\* live during the backoff wait and when the reopen is attempted.
C8_OneLiveConnection ==
    /\ live <= 1
    /\ pc \in {"backoff", "reopen"} => live = 0

C8_Witness == pc = "delay" /\ justReopened /\ live = 1

\* C9: the probe returns a (bool, reason) pair and never raises; the bool is
\* True exactly when the open succeeded and the single read yielded a frame.
C9_ProbeResult ==
    /\ spc # "probe_raised"
    /\ spc = "probe_done" =>
          /\ Len(probeResult) = 2
          /\ probeResult[1] \in BOOLEAN
          /\ probeResult[2] \in Reasons
          /\ probeResult[1] <=> (openOutcome = "ok" /\ readOutcome = "frame")
          /\ probeResult[1] <=> (probeResult[2] = "accessible")

C9_Witness ==
    spc = "probe_done" /\ readOutcome = "ret_no_frame" /\ probeResult[1] = FALSE

\* C10: when the initial open fails the session is over at once: no read,
\* no displayed frame, no reconnect, no live handle.
C10_OpenFailureEndsAttempt ==
    endReason = "open_failed" =>
        /\ pc = "done"
        /\ reads = 0 /\ runFails = 0 /\ frame = 0
        /\ frame_count = 0 /\ displayed = 0
        /\ runReconnects = 0 /\ reopenFailures = 0
        /\ live = 0

C10_Witness == endReason = "open_failed" /\ pc = "done" /\ ~capOpened

\* C13: the k-th snapshot of a session is written under number k (1, 2, ...
\* without gap), and the snapshot counter moves only by a save command: by
\* one, in a key-handling step that neither quits nor touches fullscreen.
C13_SnapshotNumbering ==
    /\ [](Len(saved) = screenshot_count)
    /\ [](\A k \in 1..Len(saved) : saved[k] = k)
    /\ [][screenshot_count' # screenshot_count =>
            /\ pc = "keys" /\ pc' = "flush"
            /\ screenshot_count' = screenshot_count + 1
            /\ saved' = Append(saved, screenshot_count + 1)
            /\ fullscreen' = fullscreen]_vars

C13_Witness == saved = <<1, 2>> /\ no_frame_count > 0

\* C15 (as stated): the counter follows the individual reads, one up per
\* failed read and back to 0 on every successful read: once an iteration is
\* handled it equals the number of consecutive failed reads since the last
\* successful read (no reconnect having reset it in between).
C15_CounterTracksReads ==
    (pc \in {"delay", "keys"} /\ runReconnects = 0)
        => no_frame_count = runFails

\* C17: in an iteration whose flush ended in a failed read, nothing is
\* displayed and no command is handled: the key step is not reached and
\* fullscreen, the snapshot counter and the frame counter stay as they are.
C17_FailedIterationInert ==
    /\ []((pc \in (LoopPcs \ {"flush"}) /\ ~ret)
            => (pc # "keys" /\ displayed = 0))
    /\ [][(pc \in (LoopPcs \ {"flush"}) /\ ~ret) =>
            /\ fullscreen' = fullscreen
            /\ screenshot_count' = screenshot_count
            /\ saved' = saved
            /\ frame_count' = frame_count
            /\ displayed' = 0]_vars

C17_Witness ==
    pc = "flush" /\ reads = 0 /\ ~ret /\ no_frame_count > 0 /\ frame_count > 0

\* C18: the failure counter never exceeds 31, and lies in 0..30 whenever the
\* session is at the reads of an iteration.
C18_CounterBounded ==
    /\ no_frame_count \in 0..(Threshold + 1)
    /\ pc = "flush" => no_frame_count \in 0..Threshold

C18_Witness == no_frame_count = Threshold + 1 /\ pc = "release"

\* C19: a session whose loop had started ends with no connection live,
\* whichever way it left the loop.
C19_ReleasedAtExit ==
    (pc = "done" /\ endReason # "open_failed") => (live = 0 /\ ~capOpened)

C19_Witness ==
    pc = "done" /\ endReason \in {"interrupt", "exception"} /\ live = 0

\* C16: each generator cycle runs validate on a probe of its own, yields one
\* event when validate returned True and none otherwise, then sleeps and
\* starts the next cycle; a failed probe leaves the generator running.
C16_OneEventPerGoodCycle ==
    /\ [](spc = "sleep" =>
            emittedThisCycle = IF should_send[1] THEN 1 ELSE 0)
    /\ [](spc \in {"decide", "sleep"} =>
            /\ should_send[1] <=> (openOutcome = "ok" /\ readOutcome = "frame")
            /\ should_send[2] # "no_url" => openOutcome # "none")
    /\ [](emitted <= cycle + 1)
    /\ [][spc = "decide" => spc' = "sleep"]_vars
    /\ [][spc = "sleep" =>
            (spc' = "cycle_start" /\ cycle' = cycle + 1 /\ emitted' = emitted)]_vars
    /\ [][spc = "cycle_start" =>
            (openOutcome' = "none" /\ readOutcome' = "none"
             /\ probeResult' = <<>>)]_vars

C16_Witness ==
    /\ spc = "cycle_start" /\ cycle >= 2
    /\ emitted = 1 /\ emittedThisCycle = 0
    /\ should_send[1] = FALSE /\ openOutcome = "fail"

\* C20 (as stated): a probe that opened a connection has released it when
\* it returns, on every path, so no probe handle is live between probes.
C20_ProbeReleases ==
    spc \in {"probe_done", "decide", "sleep", "cycle_start"} => probeLive = 0

Drawn == {dFrame.overlays[n] : n \in 1..Len(dFrame.overlays)}

\* C11: with no model (None) detect_chess_pieces returns the frame it was
\* given, same pixels and no overlay, and raises no error.
C11_NoModelNoOp ==
    /\ dpc # "raised"
    /\ (dpc = "returned" /\ dModel = "None") =>
          /\ dResult = [pixels |-> dInput, overlays |-> <<>>]
          /\ ~dErrored

C11_Witness ==
    /\ dpc = "returned" /\ dModel = "None"
    /\ Len(dDets) = 1 /\ dDets[1].conf > ConfThreshold
    /\ dResult.overlays = <<>>

\* C12 (as stated): when the detector raises, at inference or at any box,
\* nothing propagates and the returned frame carries no overlay of the call.
C12_ErrorLeavesFrameClean ==
    /\ dpc # "raised"
    /\ (dpc = "returned" /\ dErrored) => dResult.overlays = <<>>

\* C14: the overlays on the returned frame are those of exactly the boxes
\* whose confidence is above 0.3, each once; at no point is a box at or
\* below 0.3 drawn.
C14_DrawsAboveThreshold ==
    /\ \A k \in Drawn : dDets[k].conf > ConfThreshold
    /\ Cardinality(Drawn) = Len(dFrame.overlays)
    /\ (dpc = "returned" /\ dModel = "loaded" /\ ~dErrored) =>
          /\ Drawn = {k \in 1..Len(dDets) : dDets[k].conf > ConfThreshold}
          /\ dResult = dFrame

C14_Witness ==
    /\ dpc = "returned" /\ dModel = "loaded" /\ ~dErrored
    /\ Len(dDets) = 2
    /\ dDets[1].conf = ConfThreshold /\ dDets[2].conf = ConfThreshold + 1
    /\ dResult.overlays = <<2>>

====
